---- MODULE Spec2Model ----
(***************************************************************************)
(* The hacking simulation of sys_shadow: the security model generated at   *)
(* construction, the five-step catalog, attempt_step and the command       *)
(* dispatch of the hacking interface.                                      *)
(*                                                                         *)
(* Probabilities are kept in hundredths (0.05 is 5, 0.95 is 95, 0.1*level  *)
(* is 10*level): every probability the code computes is a multiple of      *)
(* 0.05, and int(0.1 * level * 10) = level in double arithmetic for every  *)
(* level in the ranges used here.  A call of random.random() is a value of *)
(* [0,1); the model keeps the outcomes of the comparison made on it.       *)
(* Python indices are 0-based: hacking_steps[current_step] in the source   *)
(* is hacking_steps[current_step + 1] here.                                *)
(***************************************************************************)
EXTENDS Integers, Sequences, FiniteSets, TLC

(* ---- bounds of the model ---- *)
\* difficulties of the simulations that are run: 0..MaxDifficulty
MaxDifficulty == 2
\* difficulties the security model is generated for:
\* -MaxNegDifficulty..MaxGenDifficulty
MaxNegDifficulty == 10
MaxGenDifficulty == 12
MaxSkillLevel == 4
\* trace_level is unbounded: the model stops adding to it once the trace spent
\* beyond the flat cost of the completed steps would pass MaxExcess
MaxExcess == 12
\* negative difficulties of the simulations that are run: -MaxRunNegDifficulty..-1
MaxRunNegDifficulty == 1
\* the simulations that are run past the mission threshold of 100 stop adding
\* to trace_level once it would pass MaxTraceLevel
MaxTraceLevel == 130
\* the missions of the game have a difficulty of 1..MaxMissionDifficulty; the
\* hacking loop of a new player stops adding to trace_level once it would pass
\* MaxGameTrace
MaxMissionDifficulty == 1
MaxGameTrace == 104
\* the amounts passed to increase_trace and decrease_trace are
\* -MaxAmount..MaxAmount, and the calls are followed while the player's
\* trace_level is within -MaxOvershoot..100 + MaxOvershoot
MaxAmount == 3
MaxOvershoot == 5
\* the number of missions get_available_missions generates
MissionCount == 1
MaxFileMissions == 1
MaxTrainingCredits == 200
MaxStoreCredits == 2100
MaxProgressStep == 2
MaxTraceIncrease == 60
SavedGameTime == 3

Difficulties == 0..MaxDifficulty
GenDifficulties == (0 - MaxNegDifficulty)..MaxGenDifficulty
RunDifficulties == (0 - MaxRunNegDifficulty)..MaxDifficulty

VARIABLES
    started,           \* HackingInterface.simulation is not None
    difficulty,        \* HackingSimulation.difficulty
    current_step,      \* HackingSimulation.current_step (0-based cursor)
    completed_steps,   \* HackingSimulation.completed_steps
    trace_level,       \* HackingSimulation.trace_level
    security_systems,  \* HackingSimulation.security_systems
    hacking_steps,     \* HackingSimulation.hacking_steps
    call,              \* the operation called last
    result,            \* the value it returned
    attempt,           \* the tuple returned by the attempt_step call it made
    chance,            \* the final_chance that attempt_step call rolled against
    successes,         \* number of attempt_step calls that returned success
    pc,                \* where main is: "none" (the objects are driven directly),
                       \* "main" (the command loop) or "hacking" (the hacking loop)
    player,            \* the Player: level, credits, experience, skills, trace_level
    manager,           \* the MissionManager: current_mission, available_missions,
                       \* mission_progress, mission_history
    trace_system,      \* the TraceSystem: exposure_level, the trace_history it
                       \* loaded and the events the last call appended to it
    bank,              \* the Bank: transaction_history
    store,             \* the Store: the stock of each item
    game_state         \* the GameState: current_mission, mission_history,
                       \* game_time, is_game_over (its player is the variable player)

vars == <<started, difficulty, current_step, completed_steps, trace_level,
          security_systems, hacking_steps, call, result, attempt,
          chance, successes, pc, player, manager, trace_system,
          bank, store, game_state>>

(* ---- helpers ---- *)
Max(a, b) == IF a >= b THEN a ELSE b
Min(a, b) == IF a <= b THEN a ELSE b

\* Python's int() on num/den: truncation toward zero.
IntTrunc(num, den) ==
    IF num >= 0 THEN num \div den ELSE 0 - ((0 - num) \div den)

\* The outcomes of `random.random() < p` for p in hundredths: the draw is in
\* [0,1), so TRUE needs p > 0 and FALSE needs p < 1.
RandomBelow(p) == {b \in BOOLEAN : (b => p > 0) /\ (~b => p < 100)}

RECURSIVE SumOver(_, _)
SumOver(S, f) ==
    IF S = {} THEN 0
    ELSE LET x == CHOOSE y \in S : TRUE IN f[x] + SumOver(S \ {x}, f)

\* dict.get(key, 0)
Get(d, key) == IF key \in DOMAIN d THEN d[key] ELSE 0

(* ---- SecuritySystem ---- *)
NoFloorLevels(d) == <<d - 1, d - 2, d, d - 1>>
\* the level arguments of the four constructor calls
SystemLevels(d) == <<Max(1, d - 1), Max(1, d - 2), d, Max(1, d - 1)>>

SystemNames == <<"Firewall", "Intrusion Detection", "Access Control", "Encryption">>

DefaultDetectionChance(level) == 0
\* SecuritySystem.__post_init__: detection_chance = 0.1 * level
PostInitDetectionChance(level) == 10 * level

\* SecuritySystem(name, level, vulnerabilities): is_active defaults to True
SecuritySystem(name, level) ==
    [name |-> name, level |-> level, is_active |-> TRUE,
     detection_chance |-> PostInitDetectionChance(level)]

\* _generate_security_systems, `active` being the outcomes of the four
\* is_active samplings
ActivationChance(d) == 50 + d * 5

_generate_security_systems(d, active) ==
    [i \in 1..4 |->
        [SecuritySystem(SystemNames[i], SystemLevels(d)[i])
            EXCEPT !.is_active = active[i]]]

(* ---- HackingStep catalog ---- *)
HackingStep(name, required_skills, success_chance, trace_increase, time_cost) ==
    [name |-> name, required_skills |-> required_skills,
     success_chance |-> success_chance, trace_increase |-> trace_increase,
     time_cost |-> time_cost]

\* required_skills is a dict: its items in insertion order
_generate_hacking_steps ==
    << HackingStep("Initial Scan", <<<<"networking", 1>>, <<"hacking", 1>>>>, 80, 5, 10),
       HackingStep("Firewall Bypass", <<<<"hacking", 2>>, <<"stealth", 1>>>>, 70, 10, 15),
       HackingStep("System Access", <<<<"hacking", 3>>, <<"programming", 2>>>>, 60, 15, 20),
       HackingStep("Data Extraction", <<<<"hacking", 4>>, <<"stealth", 3>>>>, 50, 20, 25),
       HackingStep("Cover Tracks", <<<<"hacking", 3>>, <<"stealth", 4>>>>, 70, 5, 15) >>

SkillNames == {"hacking", "stealth", "programming", "networking"}

\* The skill dicts passed to attempt_step: every skill present has the same
\* level, and the dict holds all four skills or hacking alone (any other key is
\* absent and reads as 0).
SkillMaps ==
    {[k \in K |-> l] : K \in {SkillNames, {"hacking"}}, l \in 0..MaxSkillLevel}

\* Player.__post_init__: the skills of the interface's player
DefaultSkills == [k \in SkillNames |-> 1]

None == <<>>

(* ---- Player ---- *)
\* Player(name): the dataclass defaults and __post_init__
Player ==
    [level |-> 1, credits |-> 100, experience |-> 0, inventory |-> <<>>,
     skills |-> DefaultSkills, trace_level |-> 0]

\* players whose skills have all been raised to the same level, the highest
\* the model trains to
TrainedPlayers ==
    {[Player EXCEPT !.skills = [k \in SkillNames |-> l]] : l \in {MaxSkillLevel}}

\* Player.add_experience: experience // 100 + 1 is the new level if higher
add_experience(p, amount) ==
    LET new_level == ((p.experience + amount) \div 100) + 1 IN
    [p EXCEPT !.experience = p.experience + amount,
              !.level = IF new_level > p.level THEN new_level ELSE p.level]

\* Player.add_credits: the balance never goes below 0
add_credits(p, amount) ==
    [p EXCEPT !.credits = IF p.credits + amount < 0 THEN 0 ELSE p.credits + amount]

\* Player.add_to_inventory(item)
add_to_inventory(p, item) ==
    IF \E i \in 1..Len(p.inventory) : p.inventory[i] = item THEN p
    ELSE [p EXCEPT !.inventory = Append(@, item)]

\* Player.remove_from_inventory(item): list.remove takes the first occurrence
remove_from_inventory(p, item) ==
    LET held == {i \in 1..Len(p.inventory) : p.inventory[i] = item} IN
    IF held = {} THEN p
    ELSE LET first == CHOOSE i \in held : \A k \in held : i <= k IN
         [p EXCEPT !.inventory =
             [j \in 1..(Len(@) - 1) |-> IF j < first THEN @[j] ELSE @[j + 1]]]

\* Player.improve_skill(skill), amount 1
improve_skill(p, skill) ==
    IF skill \in DOMAIN p.skills THEN [p EXCEPT !.skills[skill] = @ + 1] ELSE p

\* the clamp of increase_trace: `if trace_level > 100: trace_level = 100`
ClampAbove(trace) == IF trace > 100 THEN 100 ELSE trace
\* the clamp of decrease_trace: `if trace_level < 0: trace_level = 0`
ClampBelow(trace) == IF trace < 0 THEN 0 ELSE trace

\* Player.increase_trace(amount)
player_increase_trace(p, amount) ==
    [p EXCEPT !.trace_level = ClampAbove(p.trace_level + amount)]

\* Player.decrease_trace(amount)
player_decrease_trace(p, amount) ==
    [p EXCEPT !.trace_level = ClampBelow(p.trace_level - amount)]

(* ---- TraceSystem ---- *)
\* TraceSystem.__init__ with no trace_history.json to load
TraceSystem == [exposure_level |-> 0, trace_history |-> <<>>, recorded |-> <<>>]

\* _check_exposure: the exposure_level after it and whether it records an event
exposure_for(trace, exposure_level) ==
    IF trace >= 100 THEN <<100>>
    ELSE IF trace >= 75 THEN <<75>>
    ELSE IF trace >= 50 THEN <<50>>
    ELSE None

\* TraceSystem.increase_trace(amount, source): the player and the trace system
\* after it
trace_system_increase_trace(t, p, amount) ==
    LET trace == ClampAbove(p.trace_level + amount)
        event == [type |-> "increase", amount |-> amount, trace_level |-> trace,
                  exposure_level |-> t.exposure_level]
        exposed == exposure_for(trace, t.exposure_level)
    IN  [player |-> [p EXCEPT !.trace_level = trace],
         trace_system |->
            IF exposed = None
            THEN [t EXCEPT !.recorded = <<event>>]
            ELSE [exposure_level |-> exposed[1],
                  trace_history |-> t.trace_history,
                  recorded |-> <<event, [type |-> "exposure", trace_level |-> trace,
                                         exposure_level |-> exposed[1]]>>]]

\* TraceSystem.decrease_trace(amount, source)
trace_system_decrease_trace(t, p, amount) ==
    LET trace == ClampBelow(p.trace_level - amount) IN
    [player |-> [p EXCEPT !.trace_level = trace],
     trace_system |->
        [exposure_level |-> t.exposure_level,
         trace_history |-> t.trace_history,
         recorded |-> <<[type |-> "decrease", amount |-> 0 - amount,
                         trace_level |-> trace,
                         exposure_level |-> t.exposure_level]>>]]

(* ---- Mission ---- *)
\* base_reward and base_exp of the template system_infiltration
MissionTemplates == {[base_reward |-> 1500, base_exp |-> 75]}

\* difficulty = max(1, min(10, player_level + random.randint(-1, 2)))
MissionDifficulties(player_level) ==
    {d \in {Max(1, Min(10, player_level + r)) : r \in (0 - 1)..2} :
        d <= MaxMissionDifficulty}

\* MissionGenerator.generate_mission for a template and a difficulty; the
\* rewards are int(base * (difficulty * 0.5)); required_skills in dict order
generate_mission(id, template, d) ==
    [id |-> id, difficulty |-> d,
     experience_reward |-> IntTrunc(template.base_exp * d * 5, 10),
     credit_reward |-> IntTrunc(template.base_reward * d * 5, 10),
     required_skills |-> <<<<"hacking", Max(1, d - 1)>>, <<"stealth", Max(1, d - 2)>>,
                           <<"programming", Max(1, d - 1)>>,
                           <<"networking", Max(1, d - 2)>>>>]

\* MissionGenerator.get_available_missions(player_level, count): the lists of
\* `count` generated missions
get_available_missions(player_level) ==
    {[i \in 1..MissionCount |->
        generate_mission(<<"mission", i>>, choice[i][1], choice[i][2])] :
        choice \in [1..MissionCount ->
                      MissionTemplates \X MissionDifficulties(player_level)]}

(* ---- MissionManager ---- *)
\* MissionManager.__init__, with the list refresh_available_missions stores
MissionManager(available_missions) ==
    [current_mission |-> None, available_missions |-> available_missions,
     mission_progress |-> None, mission_history |-> <<>>]

\* list.remove of the element at position i
RemoveAt(list, i) ==
    [j \in 1..(Len(list) - 1) |-> IF j < i THEN list[j] ELSE list[j + 1]]

\* MissionManager.start_mission: the value returned and the manager after it
start_mission(m, p, mission_id) ==
    LET found == {i \in 1..Len(m.available_missions) :
                    m.available_missions[i].id = mission_id}
    IN  IF found = {} THEN [returned |-> FALSE, manager |-> m]
        ELSE
            LET i == CHOOSE i \in found : \A k \in found : i <= k
                mission == m.available_missions[i]
            IN  IF \E j \in 1..Len(mission.required_skills) :
                      Get(p.skills, mission.required_skills[j][1])
                          < mission.required_skills[j][2]
                THEN [returned |-> FALSE, manager |-> m]
                ELSE [returned |-> TRUE,
                      manager |->
                        [m EXCEPT !.current_mission = <<mission>>,
                                  !.available_missions = RemoveAt(@, i),
                                  !.mission_progress =
                                      <<[current_step |-> 0, completed_steps |-> <<>>,
                                         trace_level |-> 0]>>]]

RECURSIVE ImproveSkills(_, _, _)
\* for skill in required_skills: player.improve_skill(skill)
ImproveSkills(p, required_skills, j) ==
    IF j > Len(required_skills) THEN p
    ELSE ImproveSkills(improve_skill(p, required_skills[j][1]), required_skills, j + 1)

RewardsAlways(p, mission, success) ==
    ImproveSkills(add_credits(add_experience(p, mission.experience_reward),
                              mission.credit_reward),
                  mission.required_skills, 1)
\* the `if success:` block of complete_mission
Rewarded(p, mission, success) ==
    IF success
    THEN ImproveSkills(add_credits(add_experience(p, mission.experience_reward),
                                   mission.credit_reward),
                       mission.required_skills, 1)
    ELSE p

\* MissionManager.complete_mission: the manager and the player after it
complete_mission(m, p, success) ==
    IF m.current_mission = None THEN [manager |-> m, player |-> p]
    ELSE
        LET mission == m.current_mission[1] IN
        [manager |->
            [m EXCEPT !.mission_history =
                          Append(@, [mission_id |-> mission.id,
                                     difficulty |-> mission.difficulty,
                                     success |-> success,
                                     trace_level |-> m.mission_progress[1].trace_level]),
                      !.current_mission = None,
                      !.mission_progress = None],
         player |-> Rewarded(p, mission, success)]

UpdateFailsNothing(m, p, step, trace_increase) ==
    IF m.current_mission = None THEN [manager |-> m, player |-> p]
    ELSE [manager |->
            [m EXCEPT !.mission_progress =
                <<[@[1] EXCEPT !.current_step = step,
                               !.trace_level = @ + trace_increase]>>],
          player |-> p]
\* MissionManager.update_mission_progress(step, trace_increase): the manager
\* and the player after it
update_mission_progress(m, p, step, trace_increase) ==
    IF m.current_mission = None THEN [manager |-> m, player |-> p]
    ELSE
        LET updated ==
                [m EXCEPT !.mission_progress =
                    <<[@[1] EXCEPT !.current_step = step,
                                   !.trace_level = @ + trace_increase]>>]
        IN  IF updated.mission_progress[1].trace_level >= 100
            THEN complete_mission(updated, p, FALSE)
            ELSE [manager |-> updated, player |-> p]

\* MissionManager.get_mission_status()["difficulty"]
get_mission_difficulty(m) == m.current_mission[1].difficulty

StatusWithRewards(m) ==
    IF m.current_mission = None THEN None
    ELSE [id |-> m.current_mission[1].id,
          difficulty |-> m.current_mission[1].difficulty,
          current_step |-> m.mission_progress[1].current_step,
          trace_level |-> m.mission_progress[1].trace_level,
          rewards |-> [credits |-> m.current_mission[1].credit_reward,
                       experience |-> m.current_mission[1].experience_reward]]
\* MissionManager.get_mission_status(): the dict it builds of the current mission
\* (name, description, target and time_limit are texts the model leaves out)
get_mission_status(m) ==
    IF m.current_mission = None THEN None
    ELSE [id |-> m.current_mission[1].id,
          difficulty |-> m.current_mission[1].difficulty,
          current_step |-> m.mission_progress[1].current_step,
          trace_level |-> m.mission_progress[1].trace_level]

(* ---- Bank ---- *)
\* Bank.__init__ with no bank_history.json to load
Bank == [transaction_history |-> <<>>]

\* Bank.add_reward(amount, source): add_credits, then _record_transaction
add_reward(b, p, amount, source) ==
    LET paid == add_credits(p, amount) IN
    [bank |-> [b EXCEPT !.transaction_history =
                  Append(@, [amount |-> amount, type |-> "reward",
                             source |-> source, balance_after |-> paid.credits])],
     player |-> paid]

\* Bank.process_mission_reward(mission_data): the bank and the player after it
process_mission_reward(b, p, mission_data) ==
    IF "rewards" \notin DOMAIN mission_data
    THEN [bank |-> b, player |-> p]
    ELSE IF Get(mission_data["rewards"], "credits") > 0
    THEN add_reward(b, p, Get(mission_data["rewards"], "credits"),
                    <<"mission", Get(mission_data, "id")>>)
    ELSE [bank |-> b, player |-> p]

(* ---- StoreItem, Store ---- *)
\* Store._initialize_items: id, price, type and stock of the items, in list order
Store ==
    <<[id |-> "port_scanner", price |-> 1000, type |-> "tool", stock |-> 1],
      [id |-> "password_cracker", price |-> 2000, type |-> "tool", stock |-> 1],
      [id |-> "network_analyzer", price |-> 3000, type |-> "tool", stock |-> 1],
      [id |-> "trace_cleaner", price |-> 1500, type |-> "tool", stock |-> 1],
      [id |-> "proxy_router", price |-> 2500, type |-> "tool", stock |-> 1],
      [id |-> "code_analyzer", price |-> 2000, type |-> "tool", stock |-> 1],
      [id |-> "exploit_generator", price |-> 4000, type |-> "tool", stock |-> 1],
      [id |-> "trace_reducer", price |-> 500, type |-> "consumable", stock |-> 5],
      [id |-> "skill_boost", price |-> 1000, type |-> "consumable", stock |-> 3]>>

(* ---- GameState ---- *)
\* GameState after initialize_new_game
GameState ==
    [current_mission |-> None, mission_history |-> <<>>, game_time |-> 0,
     is_game_over |-> FALSE]

\* the objects main builds besides the player, the missions and the simulation
NoDealings ==
    /\ bank = Bank
    /\ store = Store
    /\ game_state = GameState

\* no game is running: the simulation and the interface are driven directly
NoGame ==
    /\ pc = "none"
    /\ player = Player
    /\ manager = MissionManager(<<>>)
    /\ trace_system = TraceSystem
    /\ NoDealings

(* ---- HackingSimulation.__init__ ---- *)
\* the outcomes of the four is_active samplings
ActiveOutcomes(d) ==
    {active \in [1..4 -> BOOLEAN] :
        \A i \in 1..4 : active[i] \in RandomBelow(ActivationChance(d))}

\* HackingSimulation.__init__: the fields of a new simulation
HackingSimulation(d, active) ==
    [difficulty |-> d, current_step |-> 0, completed_steps |-> <<>>,
     trace_level |-> 0,
     security_systems |-> _generate_security_systems(d, active),
     hacking_steps |-> _generate_hacking_steps]

\* a simulation right after HackingInterface.start_hacking(d)
Init ==
    /\ started = TRUE
    /\ \E d \in Difficulties : \E active \in ActiveOutcomes(d) :
          LET s == HackingSimulation(d, active) IN
          /\ difficulty = s.difficulty
          /\ current_step = s.current_step
          /\ completed_steps = s.completed_steps
          /\ trace_level = s.trace_level
          /\ security_systems = s.security_systems
          /\ hacking_steps = s.hacking_steps
    /\ call = "start_hacking"
    /\ result = None
    /\ attempt = None
    /\ chance = None
    /\ successes = 0
    /\ NoGame

(* ---- queries ---- *)
GetLastStepPastEnd ==
    <<hacking_steps[Min(current_step + 1, Len(hacking_steps))]>>
\* Optional[HackingStep] as a sequence of at most one step
get_current_step ==
    IF current_step >= Len(hacking_steps) THEN None
    ELSE <<hacking_steps[current_step + 1]>>

IsCompleteOneEarly == current_step >= Len(hacking_steps) - 1
is_complete == current_step >= Len(hacking_steps)

ProgressCountsFromOne ==
    [current_step |-> current_step + 1, total_steps |-> Len(hacking_steps),
     completed_steps |-> completed_steps, trace_level |-> trace_level]
get_progress ==
    [current_step |-> current_step, total_steps |-> Len(hacking_steps),
     completed_steps |-> completed_steps, trace_level |-> trace_level]

get_security_status ==
    [i \in 1..Len(security_systems) |->
        [name |-> security_systems[i].name, level |-> security_systems[i].level,
         is_active |-> security_systems[i].is_active,
         detection_chance |-> security_systems[i].detection_chance]]

(* ---- HackingSimulation.attempt_step ---- *)
GateChecksFirstOnly(player_skills, required_skills) ==
    IF Get(player_skills, required_skills[1][1]) < required_skills[1][2] THEN 1 ELSE 0
GateNamesLastLacking(player_skills, required_skills) ==
    LET lacking == {j \in 1..Len(required_skills) :
                       Get(player_skills, required_skills[j][1]) < required_skills[j][2]}
    IN  IF lacking = {} THEN 0
        ELSE CHOOSE j \in lacking : \A k \in lacking : j >= k
\* The gate: the position of the first required skill, in dict order, that the
\* player has below its level; 0 when every requirement is met.
FirstLacking(player_skills, required_skills) ==
    LET lacking == {j \in 1..Len(required_skills) :
                       Get(player_skills, required_skills[j][1]) < required_skills[j][2]}
    IN  IF lacking = {} THEN 0
        ELSE CHOOSE j \in lacking : \A k \in lacking : j <= k

skill_bonus(player_skills, required_skills) ==
    SumOver(1..Len(required_skills),
            [j \in 1..Len(required_skills) |->
                (Get(player_skills, required_skills[j][1]) - required_skills[j][2]) * 5])

UncappedChance(step, player_skills) ==
    step.success_chance + skill_bonus(player_skills, step.required_skills)
NoChanceAtAll(step, player_skills) == 0
NoChanceOnceTraced(step, player_skills) ==
    IF trace_level >= 100 THEN 0
    ELSE Min(95, step.success_chance + skill_bonus(player_skills, step.required_skills))
\* final_chance = min(0.95, base_chance + skill_bonus)
FinalChance(step, player_skills) ==
    Min(95, step.success_chance + skill_bonus(player_skills, step.required_skills))

FlatTrace(step, success) == step.trace_increase
DoubledTrace(step, success) == step.trace_increase * 2
\* trace_increase before the detection loop: doubled on failure
BaseTrace(step, success) ==
    IF success THEN step.trace_increase ELSE step.trace_increase * 2

DetectionBonusTwice(system) == 2 * IntTrunc(system.detection_chance * 10, 100)
\* int(system.detection_chance * 10)
DetectionBonus(system) == IntTrunc(system.detection_chance * 10, 100)

AdvanceAlways(cursor, success) == cursor + 1
AdvanceTwice(cursor, success) == IF success THEN cursor + 2 ELSE cursor
\* current_step += 1 under `if success`
AdvanceCursor(cursor, success) == IF success THEN cursor + 1 ELSE cursor

RecordStepFirst(completed, name) == <<name>> \o completed
\* self.completed_steps.append(step.name)
RecordStep(completed, name) == Append(completed, name)

\* attempt_step as a function of its argument and of the draws it makes: `roll`
\* is the outcome of `random.random() < final_chance` and D the set of systems
\* whose `random.random() < system.detection_chance` came out true.  The value
\* is the returned tuple with the fields of the simulation after the call.
attempt_step(player_skills, roll, D) ==
    LET step == get_current_step
        unchanged(message) ==
            [returned |-> <<FALSE, message, 0>>,
             current_step |-> current_step,
             completed_steps |-> completed_steps,
             trace_level |-> trace_level,
             final_chance |-> None]
    IN
    IF step = None THEN unchanged(<<"No more steps available">>)
    ELSE
        LET lacking == FirstLacking(player_skills, step[1].required_skills) IN
        IF lacking # 0
        THEN unchanged(<<"Insufficient", step[1].required_skills[lacking][1],
                         "skill level">>)
        ELSE
            LET final_chance == FinalChance(step[1], player_skills)
                success == roll
                detecting == {i \in D : security_systems[i].is_active}
                trace_increase ==
                    BaseTrace(step[1], success)
                    + SumOver(detecting,
                              [i \in detecting |-> DetectionBonus(security_systems[i])])
            IN  [returned |->
                    <<success,
                      <<IF success THEN "Successfully completed"
                        ELSE "Failed to complete", step[1].name>>,
                      trace_increase>>,
                 current_step |-> AdvanceCursor(current_step, success),
                 completed_steps |->
                    IF success THEN RecordStep(completed_steps, step[1].name)
                    ELSE completed_steps,
                 trace_level |-> trace_level + trace_increase,
                 final_chance |-> <<final_chance>>]

\* The draws a call can make.  The success roll is made only past the gate; a
\* detection draw is made for an active system only.
Rolls(player_skills) ==
    LET r == attempt_step(player_skills, TRUE, {}) IN
    IF r.final_chance = None THEN {FALSE} ELSE RandomBelow(r.final_chance[1])

Detections(player_skills) ==
    IF attempt_step(player_skills, TRUE, {}).final_chance = None THEN {{}}
    ELSE {D \in SUBSET (1..Len(security_systems)) :
            \A i \in 1..Len(security_systems) :
                (i \in D) \in (IF security_systems[i].is_active
                               THEN RandomBelow(security_systems[i].detection_chance)
                               ELSE {FALSE})}

\* the flat cost of the first n steps of the catalog
RECURSIVE FlatCost(_)
FlatCost(n) ==
    IF n = 0 THEN 0
    ELSE FlatCost(n - 1)
         + (IF n <= Len(hacking_steps) THEN hacking_steps[n].trace_increase ELSE 0)

\* the bound of the model on trace_level
WithinBound(cursor, trace) ==
    IF pc = "hacking" /\ player.skills = DefaultSkills
    THEN trace <= MaxGameTrace
    ELSE trace - FlatCost(cursor) <= MaxExcess

\* the simulation after an attempt_step call that produced r
Attempted(r) ==
    /\ WithinBound(r.current_step, r.trace_level)
    /\ current_step' = r.current_step
    /\ completed_steps' = r.completed_steps
    /\ trace_level' = r.trace_level
    /\ attempt' = r.returned
    /\ chance' = r.final_chance
    /\ successes' = IF r.returned[1] THEN successes + 1 ELSE successes
    /\ UNCHANGED <<started, difficulty, security_systems, hacking_steps>>

NotAttempted ==
    /\ attempt' = None
    /\ chance' = None
    /\ UNCHANGED <<started, difficulty, current_step, completed_steps, trace_level,
                   security_systems, hacking_steps, successes>>

\* a direct call of HackingSimulation.attempt_step
AttemptStep ==
    \E player_skills \in SkillMaps :
        \E roll \in Rolls(player_skills), D \in Detections(player_skills) :
            LET r == attempt_step(player_skills, roll, D) IN
            /\ Attempted(r)
            /\ call' = "attempt_step"
            /\ result' = r.returned
            /\ UNCHANGED <<pc, player, manager, trace_system, bank, store, game_state>>

(* ---- HackingInterface ---- *)
ScanDisablesSystems ==
    /\ WithinBound(current_step, trace_level + 2)
    /\ trace_level' = trace_level + 2
    /\ security_systems' =
          [i \in 1..Len(security_systems) |->
              [security_systems[i] EXCEPT !.is_active = FALSE]]
    /\ attempt' = None
    /\ chance' = None
    /\ UNCHANGED <<started, difficulty, current_step, completed_steps,
                   hacking_steps, successes>>
ScanLowersTrace ==
    /\ trace_level' = trace_level - 2
    /\ attempt' = None
    /\ chance' = None
    /\ UNCHANGED <<started, difficulty, current_step, completed_steps,
                   security_systems, hacking_steps, successes>>
Commands == {"help", "scan", "hack", "status", "systems", "exit", "EXIT", "look"}
\* str.lower() on the commands above
Lower(command) == IF command = "EXIT" THEN "exit" ELSE command

ScanAddsThree ==
    /\ WithinBound(current_step, trace_level + 3)
    /\ trace_level' = trace_level + 3
    /\ attempt' = None
    /\ chance' = None
    /\ UNCHANGED <<started, difficulty, current_step, completed_steps,
                   security_systems, hacking_steps, successes>>

_handle_scan ==
    /\ WithinBound(current_step, trace_level + 2)
    /\ trace_level' = trace_level + 2
    /\ attempt' = None
    /\ chance' = None
    /\ UNCHANGED <<started, difficulty, current_step, completed_steps,
                   security_systems, hacking_steps, successes>>

\* handle_command drops the value _handle_hack returns
_handle_hack ==
    IF get_current_step = None THEN NotAttempted
    ELSE \E roll \in Rolls(player.skills), D \in Detections(player.skills) :
            Attempted(attempt_step(player.skills, roll, D))

ExitOnCompletion(command) ==
    /\ call' = "handle_command"
    /\ IF ~started THEN NotAttempted /\ result' = <<FALSE>>
       ELSE CASE Lower(command) = "scan" -> _handle_scan /\ result' = <<TRUE>>
              [] Lower(command) = "hack" ->
                    _handle_hack /\ result' = <<current_step' < Len(hacking_steps)>>
              [] Lower(command) = "exit" -> NotAttempted /\ result' = <<FALSE>>
              [] OTHER -> NotAttempted /\ result' = <<TRUE>>
\* HackingInterface.handle_command(command)
handle_command(command) ==
    /\ call' = "handle_command"
    /\ IF ~started THEN NotAttempted /\ result' = <<FALSE>>
       ELSE CASE Lower(command) = "help" -> NotAttempted /\ result' = <<TRUE>>
              [] Lower(command) = "scan" -> _handle_scan /\ result' = <<TRUE>>
              [] Lower(command) = "hack" -> _handle_hack /\ result' = <<TRUE>>
              [] Lower(command) = "status" -> NotAttempted /\ result' = <<TRUE>>
              [] Lower(command) = "systems" -> NotAttempted /\ result' = <<TRUE>>
              [] Lower(command) = "exit" -> NotAttempted /\ result' = <<FALSE>>
              [] OTHER -> NotAttempted /\ result' = <<TRUE>>

HandleCommand ==
    \E command \in Commands :
        handle_command(command) /\ UNCHANGED <<pc, player, manager, trace_system, bank, store, game_state>>

\* a call of one of the query methods
Query ==
    \E op \in {"get_current_step", "get_security_status", "is_complete", "get_progress"} :
        /\ call' = op
        /\ result' = CASE op = "get_current_step" -> <<get_current_step>>
                       [] op = "get_security_status" -> <<get_security_status>>
                       [] op = "is_complete" -> <<is_complete>>
                       [] OTHER -> <<get_progress>>
        /\ NotAttempted
        /\ UNCHANGED <<pc, player, manager, trace_system, bank, store, game_state>>

Next == AttemptStep \/ HandleCommand \/ Query

Spec == Init /\ [][Next]_vars

(* ---- simulations of negative, zero and positive difficulty ---- *)
\* HackingSimulation(d) takes any integer
InitAnyDifficulty ==
    /\ started = TRUE
    /\ \E d \in RunDifficulties : \E active \in ActiveOutcomes(d) :
          LET s == HackingSimulation(d, active) IN
          /\ difficulty = s.difficulty
          /\ current_step = s.current_step
          /\ completed_steps = s.completed_steps
          /\ trace_level = s.trace_level
          /\ security_systems = s.security_systems
          /\ hacking_steps = s.hacking_steps
    /\ call = "start_hacking"
    /\ result = None
    /\ attempt = None
    /\ chance = None
    /\ successes = 0
    /\ NoGame

SpecAnyDifficulty == InitAnyDifficulty /\ [][Next]_vars

(* ---- a simulation run to a trace_level past 100 ---- *)
\* a simulation of difficulty 10, the highest a mission has, right after
\* construction: every system is active
InitLongRun ==
    /\ started = TRUE
    /\ \E active \in ActiveOutcomes(10) :
          LET s == HackingSimulation(10, active) IN
          /\ difficulty = s.difficulty
          /\ current_step = s.current_step
          /\ completed_steps = s.completed_steps
          /\ trace_level = s.trace_level
          /\ security_systems = s.security_systems
          /\ hacking_steps = s.hacking_steps
    /\ call = "start_hacking"
    /\ result = None
    /\ attempt = None
    /\ chance = None
    /\ successes = 0
    /\ NoGame

\* a direct call of attempt_step, trace_level bounded by MaxTraceLevel only
LongRunAttemptStep ==
    \E player_skills \in SkillMaps :
        \E roll \in Rolls(player_skills), D \in Detections(player_skills) :
            LET r == attempt_step(player_skills, roll, D) IN
            /\ r.trace_level <= MaxTraceLevel
            /\ current_step' = r.current_step
            /\ completed_steps' = r.completed_steps
            /\ trace_level' = r.trace_level
            /\ attempt' = r.returned
            /\ chance' = r.final_chance
            /\ successes' = IF r.returned[1] THEN successes + 1 ELSE successes
            /\ call' = "attempt_step"
            /\ result' = r.returned
            /\ UNCHANGED <<started, difficulty, security_systems, hacking_steps,
                           pc, player, manager, trace_system, bank, store,
                           game_state>>

\* the scan command, trace_level bounded by MaxTraceLevel only
LongRunScan ==
    /\ trace_level + 2 <= MaxTraceLevel
    /\ trace_level' = trace_level + 2
    /\ call' = "handle_command"
    /\ result' = <<TRUE>>
    /\ attempt' = None
    /\ chance' = None
    /\ UNCHANGED <<started, difficulty, current_step, completed_steps,
                   security_systems, hacking_steps, successes, pc, player, manager,
                   trace_system, bank, store, game_state>>

NextLongRun == LongRunAttemptStep \/ LongRunScan

SpecLongRun == InitLongRun /\ [][NextLongRun]_vars

(* ---- the security model alone: start_hacking for any difficulty ---- *)
\* HackingInterface.__init__: no simulation yet
InitGen ==
    /\ started = FALSE
    /\ difficulty = 0
    /\ current_step = 0
    /\ completed_steps = <<>>
    /\ trace_level = 0
    /\ security_systems = <<>>
    /\ hacking_steps = <<>>
    /\ call = "__init__"
    /\ result = None
    /\ attempt = None
    /\ chance = None
    /\ successes = 0
    /\ NoGame

start_hacking(d) ==
    \E active \in ActiveOutcomes(d) :
        LET s == HackingSimulation(d, active) IN
        /\ started' = TRUE
        /\ difficulty' = s.difficulty
        /\ current_step' = s.current_step
        /\ completed_steps' = s.completed_steps
        /\ trace_level' = s.trace_level
        /\ security_systems' = s.security_systems
        /\ hacking_steps' = s.hacking_steps
        /\ call' = "start_hacking"
        /\ result' = None
        /\ attempt' = None
        /\ chance' = None
        /\ successes' = 0

StartHacking ==
    \E d \in GenDifficulties : start_hacking(d) /\ UNCHANGED <<pc, player, manager, trace_system, bank, store, game_state>>

NextGen == StartHacking

SpecGen == InitGen /\ [][NextGen]_vars

(* ---- main: accept a mission, the hacking loop, mission completion ---- *)
\* HackingInterface.__init__: no simulation yet
NoSimulation ==
    /\ started = FALSE
    /\ difficulty = 0
    /\ current_step = 0
    /\ completed_steps = <<>>
    /\ trace_level = 0
    /\ security_systems = <<>>
    /\ hacking_steps = <<>>
    /\ call = "main"
    /\ result = None
    /\ attempt = None
    /\ chance = None
    /\ successes = 0

\* main up to its command loop: a new player, the missions refreshed once, the
\* hacking interface without a simulation
InitGame ==
    /\ NoSimulation
    /\ pc = "main"
    /\ player = Player
    /\ trace_system = TraceSystem
    /\ NoDealings
    /\ \E available \in get_available_missions(player.level) :
          manager = MissionManager(available)

\* the ids typed after "accept": those of the missions generated and another
MissionIds == {<<"mission", i>> : i \in 1..MissionCount} \cup {<<"unknown">>}

\* the command "accept <id>": start_mission, then start_hacking with the
\* difficulty of the mission and entry into the hacking loop
Accept ==
    /\ pc = "main"
    /\ \E mission_id \in MissionIds :
          LET r == start_mission(manager, player, mission_id) IN
          IF r.returned
          THEN /\ manager' = r.manager
               /\ player' = player
               /\ pc' = "hacking"
               /\ UNCHANGED <<trace_system, bank, store, game_state>>
               /\ start_hacking(get_mission_difficulty(r.manager))
          ELSE /\ call' = "start_mission"
               /\ result' = <<FALSE>>
               /\ NotAttempted
               /\ UNCHANGED <<pc, player, manager, trace_system, bank, store, game_state>>

\* the test after the hacking loop:
\* hacking_interface.simulation and hacking_interface.simulation.is_complete()
hacking_was_successful == started /\ is_complete

\* one round of the hacking loop: a command is handled; when handle_command
\* returns False the loop is left and the mission completed
HackingLoop ==
    /\ pc = "hacking"
    /\ \E command \in Commands :
          /\ handle_command(command)
          /\ IF result' = <<TRUE>>
             THEN UNCHANGED <<pc, player, manager, trace_system, bank, store, game_state>>
             ELSE LET mission_status == get_mission_status(manager)
                      r == complete_mission(manager, player, hacking_was_successful)
                      b == IF hacking_was_successful
                           THEN process_mission_reward(bank, r.player, mission_status)
                           ELSE [bank |-> bank, player |-> r.player]
                  IN  /\ manager' = r.manager
                      /\ player' = b.player
                      /\ bank' = b.bank
                      /\ pc' = "main"
                      /\ UNCHANGED <<trace_system, store, game_state>>

NextGame == Accept \/ HackingLoop

SpecGame == InitGame /\ [][NextGame]_vars

\* the same loop run for a player from TrainedPlayers
InitGameTrained ==
    /\ NoSimulation
    /\ pc = "main"
    /\ player \in TrainedPlayers
    /\ trace_system = TraceSystem
    /\ NoDealings
    /\ \E available \in get_available_missions(player.level) :
          manager = MissionManager(available)

SpecGameTrained == InitGameTrained /\ [][NextGame]_vars

(* ---- the player's trace_level: Player and TraceSystem driven directly ---- *)
InitTrace ==
    /\ NoSimulation
    /\ NoGame

Amounts == (0 - MaxAmount)..MaxAmount

\* the sequel of a trace call: the simulation is not involved
TraceCalled(name, amount, p, t) ==
    /\ p.trace_level >= 0 - MaxOvershoot
    /\ p.trace_level <= 100 + MaxOvershoot
    /\ player' = p
    /\ trace_system' = t
    /\ call' = name
    /\ result' = <<amount>>
    /\ NotAttempted
    /\ UNCHANGED <<pc, manager, bank, store, game_state>>

PlayerIncreaseTrace ==
    \E amount \in Amounts :
        TraceCalled("Player.increase_trace", amount,
                    player_increase_trace(player, amount),
                    [trace_system EXCEPT !.recorded = <<>>])

PlayerDecreaseTrace ==
    \E amount \in Amounts :
        TraceCalled("Player.decrease_trace", amount,
                    player_decrease_trace(player, amount),
                    [trace_system EXCEPT !.recorded = <<>>])

TraceSystemIncreaseTrace ==
    \E amount \in Amounts :
        LET r == trace_system_increase_trace(trace_system, player, amount) IN
        TraceCalled("TraceSystem.increase_trace", amount, r.player, r.trace_system)

TraceSystemDecreaseTrace ==
    \E amount \in Amounts :
        LET r == trace_system_decrease_trace(trace_system, player, amount) IN
        TraceCalled("TraceSystem.decrease_trace", amount, r.player, r.trace_system)

NextTrace ==
    \/ PlayerIncreaseTrace
    \/ PlayerDecreaseTrace
    \/ TraceSystemIncreaseTrace
    \/ TraceSystemDecreaseTrace

SpecTrace == InitTrace /\ [][NextTrace]_vars

(* ---- the JSON files the subsystems load ---- *)
\* A file is a record: json is "missing" (no such file), "invalid" (json.load
\* raises), "array" (JSON that is no object: .get raises) or "object"; each
\* key of an object is <<>> when absent and <<value>> when present.
JsonKinds == {"missing", "invalid", "array", "object"}

\* save_data.get(key, default)
JsonGet(field, default) == IF field = <<>> THEN default ELSE field[1]

\* dicts Mission(**mission_data) is called on: one with the fields of the
\* dataclass and one it rejects with a TypeError (a field is missing)
MissionDicts ==
    {<<"wellformed", generate_mission(<<"mission", 1>>, template, 1)>> :
        template \in MissionTemplates} \cup {<<"malformed">>}

MissionDictLists ==
    UNION {[1..n -> MissionDicts] : n \in 0..MaxFileMissions}

Progresses == {<<[current_step |-> 0, completed_steps |-> <<>>, trace_level |-> 0]>>}

Histories == {<<>>, <<[loaded |-> TRUE]>>}

\* contents of trace_history.json
TraceHistoryFiles ==
    {[json |-> k, trace_history |-> <<>>, exposure_level |-> <<>>] :
        k \in JsonKinds \ {"object"}}
    \cup {[json |-> "object", trace_history |-> h, exposure_level |-> e] :
            h \in {<<>>} \cup {<<x>> : x \in Histories},
            e \in {<<>>, <<50>>}}

\* contents of bank_history.json
BankHistoryFiles ==
    {[json |-> k, transactions |-> <<>>] : k \in JsonKinds \ {"object"}}
    \cup {[json |-> "object", transactions |-> h] :
            h \in {<<>>} \cup {<<x>> : x \in Histories}}

\* contents of missions.json
MissionsFiles ==
    {[json |-> k, current_mission |-> <<>>, available_missions |-> <<>>,
      mission_history |-> <<>>, mission_progress |-> <<>>] :
        k \in JsonKinds \ {"object"}}
    \cup {[json |-> "object", current_mission |-> c, available_missions |-> a,
           mission_history |-> h, mission_progress |-> IF h = <<>> THEN <<>> ELSE <<g>>] :
            c \in {<<>>} \cup {<<d>> : d \in MissionDicts},
            a \in {<<>>} \cup {<<l>> : l \in MissionDictLists},
            h \in {<<>>} \cup {<<x>> : x \in Histories},
            g \in Progresses}

\* contents of the player file: an object is the dict of a saved player or one
\* Player(**save_data) rejects with a TypeError
PlayerFiles ==
    {[json |-> k, player |-> <<>>] : k \in JsonKinds \ {"object"}}
    \cup {[json |-> "object", player |-> <<"malformed">>]}
    \cup {[json |-> "object", player |-> <<"wellformed", p>>] :
            p \in {Player} \cup TrainedPlayers}

\* contents of game_save.json, with the player file its player_file names
GameFiles ==
    {[json |-> k, player_file |-> f, current_mission |-> <<>>,
      mission_history |-> <<>>, game_time |-> <<>>, is_game_over |-> <<>>] :
        k \in JsonKinds \ {"object"},
        f \in {x \in PlayerFiles : x.json = "missing"}}
    \cup {[json |-> "object", player_file |-> f, current_mission |-> <<>>,
           mission_history |-> h, game_time |-> t,
           is_game_over |-> IF t = <<>> THEN <<>> ELSE <<TRUE>>] :
            f \in PlayerFiles,
            h \in {<<>>} \cup {<<x>> : x \in Histories},
            t \in {<<>>, <<SavedGameTime>>}}

(* ---- the loaders ---- *)
\* the try block of TraceSystem._load_trace_history: whether it raised and the
\* trace system where it stopped
_load_trace_history_try(t, file) ==
    IF file.json # "object" THEN [raised |-> TRUE, trace_system |-> t]
    ELSE [raised |-> FALSE,
          trace_system |->
            [t EXCEPT !.trace_history = JsonGet(file.trace_history, <<>>),
                      !.exposure_level = JsonGet(file.exposure_level, 0)]]

\* TraceSystem._load_trace_history
_load_trace_history(t, file) ==
    IF file.json = "missing" THEN t
    ELSE LET r == _load_trace_history_try(t, file) IN
         IF r.raised
         THEN [r.trace_system EXCEPT !.trace_history = <<>>, !.exposure_level = 0]
         ELSE r.trace_system

\* the try block of Bank._load_transaction_history
_load_transaction_history_try(b, file) ==
    IF file.json # "object" THEN [raised |-> TRUE, bank |-> b]
    ELSE [raised |-> FALSE,
          bank |-> [b EXCEPT !.transaction_history =
                                 JsonGet(file.transactions, <<>>)]]

\* Bank._load_transaction_history
_load_transaction_history(b, file) ==
    IF file.json = "missing" THEN b
    ELSE LET r == _load_transaction_history_try(b, file) IN
         IF r.raised THEN [r.bank EXCEPT !.transaction_history = <<>>]
         ELSE r.bank

\* the try block of MissionManager.load_missions: the assignments are made in
\* order, and the one that raises ends the block
load_missions_try(m, file) ==
    IF file.json # "object" THEN [raised |-> TRUE, manager |-> m]
    ELSE
        LET current == file.current_mission
            listed == JsonGet(file.available_missions, <<>>)
            m1 == IF current = <<>> THEN m
                  ELSE [m EXCEPT !.current_mission = <<current[1][2]>>]
            m2 == [m1 EXCEPT !.available_missions =
                                 [i \in 1..Len(listed) |-> listed[i][2]]]
            m3 == [m2 EXCEPT !.mission_history = JsonGet(file.mission_history, <<>>),
                             !.mission_progress = JsonGet(file.mission_progress, None)]
        IN  IF current # <<>> /\ current[1][1] = "malformed"
            THEN [raised |-> TRUE, manager |-> m]
            ELSE IF \E i \in 1..Len(listed) : listed[i][1] = "malformed"
            THEN [raised |-> TRUE, manager |-> m1]
            ELSE [raised |-> FALSE, manager |-> m3]

\* MissionManager.load_missions: the value returned and the manager after it
load_missions(m, file) ==
    IF file.json = "missing" THEN [returned |-> FALSE, manager |-> m]
    ELSE LET r == load_missions_try(m, file) IN
         [returned |-> ~r.raised, manager |-> r.manager]

\* Player.load: None when there is no file; json.load and cls(**save_data) raise
player_load(file) ==
    IF file.json = "missing" THEN [raised |-> FALSE, player |-> None]
    ELSE IF file.json # "object" \/ file.player[1] = "malformed"
    THEN [raised |-> TRUE, player |-> None]
    ELSE [raised |-> FALSE, player |-> file.player[2]]

\* the try block of GameState.load_game
load_game_try(g, p, file) ==
    IF file.json # "object" THEN [raised |-> TRUE, game_state |-> g, player |-> p]
    ELSE LET loaded == player_load(file.player_file) IN
         IF loaded.raised THEN [raised |-> TRUE, game_state |-> g, player |-> p]
         ELSE [raised |-> FALSE,
               player |-> loaded.player,
               game_state |->
                 [current_mission |-> JsonGet(file.current_mission, None),
                  mission_history |-> JsonGet(file.mission_history, <<>>),
                  game_time |-> JsonGet(file.game_time, 0),
                  is_game_over |-> JsonGet(file.is_game_over, FALSE)]]

\* GameState.load_game: the value returned, the game state and its player
load_game(g, p, file) ==
    IF file.json = "missing" THEN [returned |-> FALSE, game_state |-> g, player |-> p]
    ELSE LET r == load_game_try(g, p, file) IN
         [returned |-> ~r.raised, game_state |-> r.game_state, player |-> r.player]

(* ---- the loaders driven directly ---- *)
InitLoad ==
    /\ NoSimulation
    /\ NoGame

\* the sequel of a load: the simulation is not involved
Loaded(name, returned) ==
    /\ call' = name
    /\ result' = returned
    /\ NotAttempted
    /\ UNCHANGED <<pc, store>>

\* TraceSystem(player): the constructor, with the file it finds
NewTraceSystem(file) ==
    /\ trace_system' = _load_trace_history(TraceSystem, file)
    /\ Loaded("TraceSystem", None)
    /\ UNCHANGED <<player, manager, bank, game_state>>

\* Bank(player): the constructor, with the file it finds
NewBank(file) ==
    /\ bank' = _load_transaction_history(Bank, file)
    /\ Loaded("Bank", None)
    /\ UNCHANGED <<player, manager, trace_system, game_state>>

LoadMissions(file) ==
    LET r == load_missions(manager, file) IN
    /\ manager' = r.manager
    /\ Loaded("load_missions", <<r.returned>>)
    /\ UNCHANGED <<player, trace_system, bank, game_state>>

LoadGame(file) ==
    LET r == load_game(game_state, player, file) IN
    /\ game_state' = r.game_state
    /\ player' = r.player
    /\ Loaded("load_game", <<r.returned>>)
    /\ UNCHANGED <<manager, trace_system, bank>>

NextLoad ==
    \/ \E file \in TraceHistoryFiles : NewTraceSystem(file)
    \/ \E file \in BankHistoryFiles : NewBank(file)
    \/ \E file \in MissionsFiles : LoadMissions(file)
    \/ \E file \in GameFiles : LoadGame(file)

SpecLoad == InitLoad /\ [][NextLoad]_vars

(* ---- the MissionManager driven directly ---- *)
\* a new or a trained player and a manager whose available missions have been
\* refreshed
InitMissions ==
    /\ NoSimulation
    /\ pc = "none"
    /\ player \in {Player} \cup TrainedPlayers
    /\ trace_system = TraceSystem
    /\ NoDealings
    /\ \E available \in get_available_missions(player.level) :
          manager = MissionManager(available)

ProgressSteps == 0..MaxProgressStep
TraceIncreases ==
    {0, MaxTraceIncrease \div 3, MaxTraceIncrease \div 2, MaxTraceIncrease}

\* the sequel of a manager call: the simulation is not involved
ManagerCalled(name, returned, m, p) ==
    /\ manager' = m
    /\ player' = p
    /\ call' = name
    /\ result' = returned
    /\ NotAttempted
    /\ UNCHANGED <<pc, trace_system, bank, store, game_state>>

StartMission ==
    \E mission_id \in MissionIds :
        LET r == start_mission(manager, player, mission_id) IN
        ManagerCalled("start_mission", <<r.returned>>, r.manager, player)

UpdateMissionProgress ==
    \E step \in ProgressSteps, trace_increase \in TraceIncreases :
        LET r == update_mission_progress(manager, player, step, trace_increase) IN
        ManagerCalled("update_mission_progress", None, r.manager, r.player)

CompleteMission ==
    \E success \in BOOLEAN :
        LET r == complete_mission(manager, player, success) IN
        ManagerCalled("complete_mission", None, r.manager, r.player)

NextMissions == StartMission \/ UpdateMissionProgress \/ CompleteMission

SpecMissions == InitMissions /\ [][NextMissions]_vars

(* ---- attempts by a player who meets every step, with fair outcomes ---- *)
\* a simulation of difficulty 0 or of the highest difficulty of the model,
\* right after construction
InitFair ==
    /\ started = TRUE
    /\ \E d \in {0, MaxDifficulty} : \E active \in ActiveOutcomes(d) :
          LET s == HackingSimulation(d, active) IN
          /\ difficulty = s.difficulty
          /\ current_step = s.current_step
          /\ completed_steps = s.completed_steps
          /\ trace_level = s.trace_level
          /\ security_systems = s.security_systems
          /\ hacking_steps = s.hacking_steps
    /\ call = "start_hacking"
    /\ result = None
    /\ attempt = None
    /\ chance = None
    /\ successes = 0
    /\ NoGame

\* the skill dicts that pass the gate of all the steps of the catalog
QualifiedSkills ==
    {s \in SkillMaps :
        \A i \in 1..Len(hacking_steps) :
            FirstLacking(s, hacking_steps[i].required_skills) = 0}

\* an attempt_step call with such a dict whose success roll comes out `roll`;
\* the bound of the model on trace_level holds back failed attempts only
FairAttempt(roll) ==
    \E player_skills \in QualifiedSkills :
        /\ roll \in Rolls(player_skills)
        /\ \E D \in Detections(player_skills) :
              LET r == attempt_step(player_skills, roll, D) IN
              /\ roll \/ WithinBound(r.current_step, r.trace_level)
              /\ current_step' = r.current_step
              /\ completed_steps' = r.completed_steps
              /\ trace_level' = r.trace_level
              /\ attempt' = r.returned
              /\ chance' = r.final_chance
              /\ successes' = IF r.returned[1] THEN successes + 1 ELSE successes
              /\ call' = "attempt_step"
              /\ result' = r.returned
              /\ UNCHANGED <<started, difficulty, security_systems, hacking_steps,
                             pc, player, manager, trace_system, bank, store,
                             game_state>>

AttemptSucceeds == FairAttempt(TRUE)

AttemptFails == FairAttempt(FALSE)

NextFair == AttemptSucceeds \/ AttemptFails

\* attempts keep being issued and the success roll, whose chance is above 0,
\* does not come out false for ever
SpecFair == InitFair /\ [][NextFair]_vars /\ WF_vars(AttemptSucceeds)

(* ---- Store and StoreInterface ---- *)
\* next((i for i in self.items if i.id == item_id), None): the position of the
\* first item with that id, 0 for None
FindItem(items, item_id) ==
    LET found == {i \in 1..Len(items) : items[i].id = item_id} IN
    IF found = {} THEN 0 ELSE CHOOSE i \in found : \A k \in found : i <= k

BuyIgnoresStock(items, item_id, player_credits) ==
    LET i == FindItem(items, item_id) IN
    IF i = 0 THEN [returned |-> None, store |-> items]
    ELSE IF player_credits < items[i].price THEN [returned |-> None, store |-> items]
    ELSE [returned |-> <<[items[i] EXCEPT !.stock = @ - 1]>>,
          store |-> [items EXCEPT ![i].stock = @ - 1]]
\* Store.buy_item(item_id, player_credits): the item returned, None for a
\* refusal, and the items after it
buy_item(items, item_id, player_credits) ==
    LET i == FindItem(items, item_id) IN
    IF i = 0 THEN [returned |-> None, store |-> items]
    ELSE IF items[i].stock <= 0 THEN [returned |-> None, store |-> items]
    ELSE IF player_credits < items[i].price THEN [returned |-> None, store |-> items]
    ELSE [returned |-> <<[items[i] EXCEPT !.stock = @ - 1]>>,
          store |-> [items EXCEPT ![i].stock = @ - 1]]

\* Store.sell_item(item) for the item at position i: int(price * 0.5) and the
\* items after it
sell_item(items, i) ==
    [returned |-> IntTrunc(items[i].price * 5, 10),
     store |-> [items EXCEPT ![i].stock = @ + 1]]

\* Store.refresh_stock: the stocks random.randint(1, 5) can give the consumables
refresh_stock(items) ==
    {[i \in 1..Len(items) |->
        IF items[i].type = "consumable" THEN [items[i] EXCEPT !.stock = drawn[i]]
        ELSE items[i]] :
        drawn \in [{i \in 1..Len(items) : items[i].type = "consumable"} -> 1..5]}

\* StoreInterface._handle_buy(item_id): the store and the player after it
_handle_buy(items, p, item_id) ==
    LET r == buy_item(items, item_id, p.credits) IN
    IF r.returned = None THEN [store |-> items, player |-> p]
    ELSE [store |-> r.store,
          player |-> add_to_inventory(
                        [p EXCEPT !.credits = @ - r.returned[1].price],
                        r.returned[1].id)]

\* StoreInterface._handle_sell(item_id)
_handle_sell(items, p, item_id) ==
    IF \A j \in 1..Len(p.inventory) : p.inventory[j] # item_id
    THEN [store |-> items, player |-> p]
    ELSE LET i == FindItem(items, item_id) IN
         IF i = 0 THEN [store |-> items, player |-> p]
         ELSE LET r == sell_item(items, i) IN
              [store |-> r.store,
               player |-> remove_from_inventory(
                             [p EXCEPT !.credits = @ + r.returned], item_id)]

ItemIds == {Store[i].id : i \in 1..Len(Store)}

\* the commands typed in the store: "buy <id>" and "sell <id>" as pairs
StoreCommands ==
    {<<verb, item_id>> : verb \in {"buy", "sell"}, item_id \in ItemIds \cup {"unknown"}}
    \cup {<<"help">>, <<"list">>, <<"inventory">>, <<"refresh">>, <<"exit">>, <<"look">>}

\* StoreInterface.handle_command(command): the value returned, the store and
\* the player after it
store_handle_command(items, p, command) ==
    CASE command[1] = "buy" ->
            {[returned |-> TRUE] @@ _handle_buy(items, p, command[2])}
      [] command[1] = "sell" ->
            {[returned |-> TRUE] @@ _handle_sell(items, p, command[2])}
      [] command[1] = "refresh" ->
            {[returned |-> TRUE, store |-> refreshed, player |-> p] :
                refreshed \in refresh_stock(items)}
      [] command[1] = "exit" -> {[returned |-> FALSE, store |-> items, player |-> p]}
      [] OTHER -> {[returned |-> TRUE, store |-> items, player |-> p]}

\* StoreInterface(player, ui) for a player constructed with some credits
InitStore ==
    /\ NoSimulation
    /\ pc = "none"
    /\ \E credits \in {100, MaxStoreCredits \div 2, MaxStoreCredits} :
          player = [Player EXCEPT !.credits = credits]
    /\ manager = MissionManager(<<>>)
    /\ trace_system = TraceSystem
    /\ NoDealings

StoreCommand(command) ==
    \E r \in store_handle_command(store, player, command) :
        /\ store' = r.store
        /\ player' = r.player
        /\ call' = "StoreInterface.handle_command"
        /\ result' = <<r.returned>>
        /\ NotAttempted
        /\ UNCHANGED <<pc, manager, trace_system, bank, game_state>>

NextStore == \E command \in StoreCommands : StoreCommand(command)

SpecStore == InitStore /\ [][NextStore]_vars

(* ---- SkillTraining ---- *)
\* SkillTraining.__init__: training_costs and training_experience
training_costs ==
    [hacking |-> 50, stealth |-> 40, programming |-> 45, networking |-> 35]

training_experience ==
    [hacking |-> 20, stealth |-> 15, programming |-> 25, networking |-> 20]

\* success_chance = max(0.1, 1.0 - (current_level * 0.1)), in hundredths
training_success_chance(current_level) == Max(10, 100 - (current_level * 10))

\* SkillTraining.train_skill(skill), `roll` being the outcome of
\* random.random() < success_chance: the value returned and the player after it
train_skill(p, skill, roll) ==
    IF skill \notin DOMAIN p.skills THEN [returned |-> FALSE, player |-> p]
    ELSE IF p.credits < training_costs[skill] THEN [returned |-> FALSE, player |-> p]
    ELSE
        LET trained == add_experience(add_credits(p, 0 - training_costs[skill]),
                                      training_experience[skill])
        IN  IF roll THEN [returned |-> TRUE, player |-> improve_skill(trained, skill)]
            ELSE [returned |-> FALSE, player |-> trained]

\* the rolls a train_skill call can make: none is made when it returns early
TrainingRolls(p, skill) ==
    IF skill \notin DOMAIN p.skills \/ p.credits < training_costs[skill] THEN {FALSE}
    ELSE RandomBelow(training_success_chance(Get(p.skills, skill)))

\* the skills typed after "train": those of the player and another
TrainedSkills == SkillNames \cup {"cooking"}

\* SkillTraining(player) for a player constructed with some credits
InitTraining ==
    /\ NoSimulation
    /\ pc = "none"
    /\ \E credits \in {100, MaxTrainingCredits} :
          player = [Player EXCEPT !.credits = credits]
    /\ manager = MissionManager(<<>>)
    /\ trace_system = TraceSystem
    /\ NoDealings

TrainSkill ==
    \E skill \in TrainedSkills : \E roll \in TrainingRolls(player, skill) :
        LET r == train_skill(player, skill, roll) IN
        /\ player' = r.player
        /\ call' = "train_skill"
        /\ result' = <<r.returned>>
        /\ NotAttempted
        /\ UNCHANGED <<pc, manager, trace_system, bank, store, game_state>>

NextTraining == TrainSkill

SpecTraining == InitTraining /\ [][NextTraining]_vars

(* ==== the claims ==== *)
\* the step an attempt in the current state is made on (the cursor is in the catalog)
CursorStep == hacking_steps[current_step + 1]

\* some skill the step requires is below its required level
SomeSkillBelow(player_skills, step) ==
    \E j \in 1..Len(step.required_skills) :
        Get(player_skills, step.required_skills[j][1]) < step.required_skills[j][2]

\* the bonuses of the systems in D that are active
TriggeredBonuses(D) ==
    LET T == {i \in D : security_systems[i].is_active} IN
    SumOver(T, [i \in T |-> DetectionBonus(security_systems[i])])

AllDraws == BOOLEAN \X (SUBSET (1..4))

\* C1: in every reachable state with the cursor on a step, for every skill
\* mapping with a required skill below its level and for every outcome of the
\* random draws, attempt_step returns success False and trace delta 0 and
\* leaves current_step, trace_level and completed_steps as they are.
C1_GatedAttemptChangesNothing ==
    current_step < Len(hacking_steps) =>
        \A player_skills \in SkillMaps :
            SomeSkillBelow(player_skills, CursorStep) =>
                \A draw \in AllDraws :
                    LET r == attempt_step(player_skills, draw[1], draw[2]) IN
                    /\ r.returned[1] = FALSE
                    /\ r.returned[3] = 0
                    /\ r.current_step = current_step
                    /\ r.trace_level = trace_level
                    /\ r.completed_steps = completed_steps

\* a gated attempt has been made past the first step, with trace already spent
C1_Witness ==
    /\ call = "attempt_step"
    /\ attempt # None
    /\ attempt[2][1] = "Insufficient"
    /\ current_step >= 1
    /\ trace_level > 0

\* C2: current_step never decreases; every change of it is an increase of
\* exactly 1 made by an operation whose attempt_step call returned success
\* True; and every attempt_step call that returns success True increases it by
\* exactly 1.
C2_CursorAdvancesOnlyOnSuccess ==
    [][ /\ current_step' >= current_step
        /\ current_step' # current_step =>
              /\ current_step' = current_step + 1
              /\ attempt' # None
              /\ attempt'[1] = TRUE
        /\ (attempt' # None /\ attempt'[1] = TRUE) =>
              current_step' = current_step + 1 ]_vars

\* a successful attempt after a failed one and a scan somewhere before it
C2_Witness ==
    /\ attempt # None
    /\ attempt[1] = TRUE
    /\ current_step = 2
    /\ trace_level > FlatCost(2) + 2

\* C3: in every reachable state, for every skill mapping that passes the gate
\* and every admissible detection outcome, a failed roll leaves current_step
\* and completed_steps as they are and adds to trace_level exactly twice the
\* step's trace_increase plus the bonuses of the systems that detected.
C3_FailedAttemptCost ==
    current_step < Len(hacking_steps) =>
        \A player_skills \in SkillMaps :
            ~SomeSkillBelow(player_skills, CursorStep) =>
                \A D \in Detections(player_skills) :
                    LET r == attempt_step(player_skills, FALSE, D) IN
                    /\ FALSE \in Rolls(player_skills)
                    /\ r.returned[1] = FALSE
                    /\ r.current_step = current_step
                    /\ r.completed_steps = completed_steps
                    /\ r.trace_level - trace_level =
                          2 * CursorStep.trace_increase + TriggeredBonuses(D)

\* a failed attempt in which a detection bonus was added
C3_Witness ==
    /\ attempt # None
    /\ attempt[1] = FALSE
    /\ attempt[2][1] = "Failed to complete"
    /\ current_step < Len(hacking_steps)
    /\ attempt[3] > 2 * CursorStep.trace_increase

\* C4: the third element of the tuple an attempt_step call returns is the
\* amount trace_level changed by in that call, for every step the model takes
\* and for every call that can be made in a reachable state; on success the
\* amount is the step's flat trace_increase plus the bonuses of the systems
\* that detected.
C4_ReturnedCostIsTraceChange ==
    /\ [](\A player_skills \in SkillMaps :
            \A roll \in Rolls(player_skills), D \in Detections(player_skills) :
                LET r == attempt_step(player_skills, roll, D) IN
                /\ r.returned[3] = r.trace_level - trace_level
                /\ r.returned[1] =>
                      r.returned[3] = CursorStep.trace_increase + TriggeredBonuses(D))
    /\ [][attempt' # None => attempt'[3] = trace_level' - trace_level]_vars

\* a successful attempt whose returned cost includes a detection bonus
C4_Witness ==
    /\ call = "attempt_step"
    /\ attempt # None
    /\ attempt[1] = TRUE
    /\ attempt[3] > hacking_steps[current_step].trace_increase

\* C5: current_step never exceeds 5 and is_complete() holds exactly when
\* current_step = 5.
C5_CompleteIffCursorIsFive ==
    /\ current_step <= 5
    /\ is_complete <=> current_step = 5

\* is_complete() was called on a completed simulation and returned True
C5_Witness ==
    /\ call = "is_complete"
    /\ result = <<TRUE>>
    /\ current_step = 5

\* C6: is_complete() holds exactly when five attempt_step calls have returned
\* success, whatever else has been called in between.
C6_CompleteAfterFiveSuccesses ==
    /\ successes <= 5
    /\ is_complete <=> successes = 5

\* five successes with failed attempts or scans in between
C6_Witness ==
    /\ successes = 5
    /\ is_complete
    /\ trace_level >= FlatCost(5) + 10

\* C7: for a difficulty of at least 1 every generated system has a level of at
\* least 1.
C7_LevelsAtLeastOne ==
    (started /\ difficulty >= 1) =>
        /\ Len(security_systems) = 4
        /\ \A i \in 1..4 : security_systems[i].level >= 1

\* the smallest such difficulty: Access Control is at level 1 with no floor
C7_Witness ==
    /\ started
    /\ difficulty = 1
    /\ security_systems[3].name = "Access Control"
    /\ security_systems[3].level = 1

LevelOffsets == <<1, 2, 0, 1>>

\* C8: for every difficulty, every generated system has level
\* max(1, difficulty - offset), the offsets being 1, 2, 0, 1.
C8_LevelsAreFlooredEverywhere ==
    started =>
        \A i \in 1..4 :
            security_systems[i].level = Max(1, difficulty - LevelOffsets[i])

\* C9: every system's detection_chance is one tenth of its level (in
\* hundredths: ten times the level) in every state of a simulation.
C9_DetectionChanceIsTenthOfLevel ==
    \A i \in 1..Len(security_systems) :
        security_systems[i].detection_chance = 10 * security_systems[i].level

\* after attempts and scans, with an inactive system and one of level 2
C9_Witness ==
    /\ current_step >= 2
    /\ trace_level > FlatCost(current_step)
    /\ \E i \in 1..4 : ~security_systems[i].is_active
    /\ \E i \in 1..4 : security_systems[i].detection_chance = 20

\* the surplus of the player over the requirements of a step
Surplus(player_skills, step) ==
    SumOver(1..Len(step.required_skills),
            [j \in 1..Len(step.required_skills) |->
                Get(player_skills, step.required_skills[j][1])
                - step.required_skills[j][2]])

\* C10: for every skill mapping that passes the gate, the chance attempt_step
\* rolls against is min(0.95, base + 0.05 * surplus); it is at most 0.95 and at
\* least min(0.95, base).  The chance of the last call is one of these.
C10_FinalChance ==
    /\ current_step < Len(hacking_steps) =>
          \A player_skills \in SkillMaps :
              ~SomeSkillBelow(player_skills, CursorStep) =>
                  LET r == attempt_step(player_skills, TRUE, {}) IN
                  /\ r.final_chance # None
                  /\ r.final_chance[1] =
                        Min(95, CursorStep.success_chance
                                + 5 * Surplus(player_skills, CursorStep))
                  /\ r.final_chance[1] <= 95
                  /\ r.final_chance[1] >= Min(95, CursorStep.success_chance)
                  /\ Rolls(player_skills) = RandomBelow(r.final_chance[1])
    /\ chance # None => chance[1] <= 95

\* an attempt failed although its chance was at the cap
C10_Witness ==
    /\ attempt # None
    /\ attempt[1] = FALSE
    /\ chance = <<95>>
    /\ \E player_skills \in SkillMaps :
          /\ ~SomeSkillBelow(player_skills, CursorStep)
          /\ UncappedChance(CursorStep, player_skills) > 95

\* the skill mappings in which every skill is 0
ZeroSkillMaps == {player_skills \in SkillMaps :
                    \A k \in DOMAIN player_skills : player_skills[k] = 0}

\* the required skills of a step that the mapping has below their level
LackingSkills(player_skills, step) ==
    {j \in 1..Len(step.required_skills) :
        Get(player_skills, step.required_skills[j][1]) < step.required_skills[j][2]}

\* C11: in every reachable state with the cursor on Firewall Bypass, an
\* attempt_step call with an all-zero skill mapping returns exactly
\* (False, "Insufficient hacking skill level", 0) and leaves cursor and
\* trace_level as they are, whatever the draws, so any number of repeated
\* calls does; and in every state, for every mapping that lacks a required
\* skill, the message names the lacking skill that comes first in the step's
\* declared order.
C11_GateMessageNamesFirstLacking ==
    current_step < Len(hacking_steps) =>
        /\ CursorStep.name = "Firewall Bypass" =>
              \A player_skills \in ZeroSkillMaps : \A draw \in AllDraws :
                  LET r == attempt_step(player_skills, draw[1], draw[2]) IN
                  /\ r.returned = <<FALSE, <<"Insufficient", "hacking", "skill level">>, 0>>
                  /\ r.current_step = current_step
                  /\ r.trace_level = trace_level
        /\ \A player_skills \in SkillMaps :
              LackingSkills(player_skills, CursorStep) # {} =>
                  \E j \in LackingSkills(player_skills, CursorStep) :
                      /\ \A k \in LackingSkills(player_skills, CursorStep) : j <= k
                      /\ attempt_step(player_skills, TRUE, {}).returned[2] =
                            <<"Insufficient", CursorStep.required_skills[j][1],
                              "skill level">>

\* a gated attempt on Firewall Bypass that named hacking, after trace was spent
C11_Witness ==
    /\ call = "attempt_step"
    /\ attempt = <<FALSE, <<"Insufficient", "hacking", "skill level">>, 0>>
    /\ current_step = 1
    /\ hacking_steps[2].required_skills = <<<<"hacking", 2>>, <<"stealth", 1>>>>
    /\ trace_level > FlatCost(1)

\* C12: in every reachable state whose cursor is at the catalog length,
\* get_current_step() is None and attempt_step, for every skill mapping and
\* every draw, returns (False, "No more steps available", 0) and leaves
\* current_step, trace_level and completed_steps as they are; and no step of
\* the model leaves a complete state for an incomplete one or changes the
\* cursor or the completed list of a complete simulation.
C12_CompleteIsAbsorbing ==
    /\ [](current_step >= Len(hacking_steps) =>
            /\ get_current_step = None
            /\ \A player_skills \in SkillMaps : \A draw \in AllDraws :
                  LET r == attempt_step(player_skills, draw[1], draw[2]) IN
                  /\ r.returned = <<FALSE, <<"No more steps available">>, 0>>
                  /\ r.current_step = current_step
                  /\ r.trace_level = trace_level
                  /\ r.completed_steps = completed_steps)
    /\ [][current_step >= Len(hacking_steps) =>
            /\ current_step' = current_step
            /\ completed_steps' = completed_steps
            /\ is_complete'
            /\ call' = "attempt_step" =>
                  /\ attempt' = <<FALSE, <<"No more steps available">>, 0>>
                  /\ trace_level' = trace_level]_vars

\* attempt_step was called on a complete simulation
C12_Witness ==
    /\ call = "attempt_step"
    /\ attempt = <<FALSE, <<"No more steps available">>, 0>>
    /\ current_step = Len(hacking_steps)
    /\ Len(completed_steps) = 5

\* C13: trace_level is 0 right after construction and no step of the model
\* (attempt_step calls, interface commands, queries) lowers it, in simulations
\* of negative, zero and positive difficulty; no attempt_step call that can be
\* made in a reachable state returns a negative cost.
C13_TraceNeverDecreases ==
    /\ trace_level = 0
    /\ [][trace_level' >= trace_level]_vars
    /\ [](\A player_skills \in SkillMaps :
            \A roll \in Rolls(player_skills), D \in Detections(player_skills) :
                attempt_step(player_skills, roll, D).returned[3] >= 0)

\* a gate-passing attempt in a simulation of negative difficulty in which a
\* system of negative detection chance is active
C13_Witness ==
    /\ difficulty < 0
    /\ \E i \in 1..4 : /\ security_systems[i].is_active
                        /\ security_systems[i].detection_chance < 0
    /\ attempt # None
    /\ attempt[2][1] = "Failed to complete"
    /\ current_step >= 1
    /\ trace_level > 0

\* C14: in every reachable state, whatever its trace_level (values above 100
\* included), with the cursor on a step: some skill mapping passes the gate;
\* for every mapping that passes it both outcomes of the roll are possible, a
\* success advances the cursor by one and records the step, and a failure
\* leaves the cursor where it is, so the same attempt can be made again.
\* attempt_step returns without an attempt only for a lacking skill or at the
\* end of the catalog.
C14_TraceNeverStopsAnAttempt ==
    /\ current_step < Len(hacking_steps) =>
          /\ \E player_skills \in SkillMaps : ~SomeSkillBelow(player_skills, CursorStep)
          /\ \A player_skills \in SkillMaps :
                ~SomeSkillBelow(player_skills, CursorStep) =>
                    /\ Rolls(player_skills) = BOOLEAN
                    /\ \A D \in Detections(player_skills) :
                          LET won == attempt_step(player_skills, TRUE, D)
                              lost == attempt_step(player_skills, FALSE, D)
                          IN  /\ won.returned[1] = TRUE
                              /\ won.current_step = current_step + 1
                              /\ won.completed_steps =
                                    Append(completed_steps, CursorStep.name)
                              /\ lost.returned[1] = FALSE
                              /\ lost.returned[2][1] = "Failed to complete"
                              /\ lost.current_step = current_step
                              /\ lost.trace_level > trace_level
    /\ attempt # None =>
          \/ attempt[2][1] \in {"Successfully completed", "Failed to complete",
                                "Insufficient"}
          \/ /\ attempt[2] = <<"No more steps available">>
             /\ current_step = Len(hacking_steps)

\* an attempt made at a trace_level above 100 succeeded and advanced the cursor
C14_Witness ==
    /\ attempt # None
    /\ attempt[1] = TRUE
    /\ trace_level - attempt[3] > 100
    /\ current_step >= 1
    /\ completed_steps[current_step] = hacking_steps[current_step].name

\* the systems whose is_active is set
ActiveSystems == {i \in 1..Len(security_systems) : security_systems[i].is_active}

\* C15: in every reachable state, for every skill mapping that passes the gate,
\* either outcome of the roll and every set D of systems whose detection draw
\* came out true, the cost attempt_step returns minus the base cost (the step's
\* trace_increase on success, twice that on failure) is the sum of the levels
\* of the active systems in D: each active system adds its level once or
\* nothing, a system that is not active adds nothing, and the bonus is never
\* more than the levels of all active systems together.  In every step of the
\* model that makes a gate-passing attempt the returned cost minus the base
\* cost is the sum of the levels of some set of active systems.
C15_DetectionBonusIsSumOfActiveLevels ==
    /\ [](current_step < Len(hacking_steps) =>
            \A player_skills \in SkillMaps :
                ~SomeSkillBelow(player_skills, CursorStep) =>
                    \A draw \in AllDraws :
                        LET r == attempt_step(player_skills, draw[1], draw[2])
                            base == IF draw[1] THEN CursorStep.trace_increase
                                    ELSE 2 * CursorStep.trace_increase
                            S == draw[2] \cap ActiveSystems
                            bonus == r.returned[3] - base
                        IN  /\ bonus = SumOver(S, [i \in S |-> security_systems[i].level])
                            /\ draw[2] \in Detections(player_skills) =>
                                  /\ bonus >= 0
                                  /\ bonus <= SumOver(ActiveSystems,
                                         [i \in ActiveSystems |-> security_systems[i].level]))
    /\ [][(attempt' # None /\ attempt'[2][1] \in {"Successfully completed",
                                                    "Failed to complete"}) =>
            \E S \in SUBSET ActiveSystems :
                attempt'[3] - (IF attempt'[1] THEN CursorStep.trace_increase
                               ELSE 2 * CursorStep.trace_increase)
                    = SumOver(S, [i \in S |-> security_systems[i].level])]_vars

\* a successful attempt to which two systems of levels 2 and 1 added their
\* level while the other two were not active
C15_Witness ==
    /\ attempt # None
    /\ attempt[1] = TRUE
    /\ attempt[3] - hacking_steps[current_step].trace_increase = 3
    /\ Cardinality(ActiveSystems) = 2
    /\ \E i \in ActiveSystems : security_systems[i].level = 2

\* C16: no step of the model (attempt_step calls, interface commands, scans
\* and hacks among them, queries) changes security_systems or hacking_steps;
\* in every reachable state they are what __init__ built for the difficulty:
\* the four systems with the generated names, levels and detection chances,
\* and the five-step catalog.
C16_SystemsAndCatalogAreFrozen ==
    /\ [][/\ security_systems' = security_systems
          /\ hacking_steps' = hacking_steps
          /\ difficulty' = difficulty]_vars
    /\ [](/\ hacking_steps = _generate_hacking_steps
          /\ \E active \in ActiveOutcomes(difficulty) :
                security_systems = _generate_security_systems(difficulty, active))

\* a scan, then attempts up to the third step, with a system inactive since
\* construction
C16_Witness ==
    /\ current_step >= 3
    /\ trace_level > FlatCost(current_step) + 2
    /\ attempt # None
    /\ \E i \in 1..4 : ~security_systems[i].is_active
    /\ \E i \in 1..4 : security_systems[i].is_active

QueryNames == {"get_current_step", "get_security_status", "is_complete", "get_progress"}

\* C17: a call of get_progress, get_current_step, get_security_status or
\* is_complete, in any reachable state, leaves current_step, completed_steps,
\* trace_level, security_systems and hacking_steps as they are, and
\* get_progress returns the cursor, the total 5, the completed names and the
\* trace_level of the state it is called in.
C17_QueriesAreReadOnly ==
    [][call' \in QueryNames =>
        /\ UNCHANGED <<current_step, completed_steps, trace_level,
                       security_systems, hacking_steps>>
        /\ call' = "get_progress" =>
              result' = <<[current_step |-> current_step, total_steps |-> 5,
                           completed_steps |-> completed_steps,
                           trace_level |-> trace_level]>>
        /\ call' = "is_complete" => result' = <<current_step = 5>>
        /\ call' = "get_current_step" =>
              result' = <<IF current_step < 5 THEN <<CursorStep>> ELSE None>>]_vars

\* get_progress was called after three completed steps and some extra trace
C17_Witness ==
    /\ call = "get_progress"
    /\ result[1].current_step = 3
    /\ result[1].total_steps = 5
    /\ result[1].completed_steps = <<"Initial Scan", "Firewall Bypass", "System Access">>
    /\ result[1].trace_level > FlatCost(3)
    /\ trace_level = result[1].trace_level

\* the threshold of update_mission_progress: trace_level >= 100
MissionTraceThreshold == 100

\* C18: in the running game, in every state in which the trace_level of the
\* hacking simulation is at or above the Mission Manager's threshold of 100,
\* the Mission Manager has ended the mission, and ended it as failed: no
\* mission is current and the last entry of mission_history has success False.
C18_ThresholdEndsMissionAsFailed ==
    (pc # "none" /\ started /\ trace_level >= MissionTraceThreshold) =>
        /\ manager.current_mission = None
        /\ manager.mission_history # <<>>
        /\ manager.mission_history[Len(manager.mission_history)].success = FALSE

\* C19: starting from 0, after any sequence of Player.increase_trace,
\* Player.decrease_trace, TraceSystem.increase_trace and
\* TraceSystem.decrease_trace calls with integer amounts, negative ones
\* included, the player's trace_level is within 0..100.
C19_PlayerTraceWithinZeroAndHundred ==
    /\ player.trace_level >= 0
    /\ player.trace_level <= 100

\* the last entry of mission_history
LastCompleted == manager.mission_history[Len(manager.mission_history)]

\* C20: in every reachable state of the game with a current mission,
\* complete_mission(False) leaves the player's experience, credits, level and
\* skills as they are, and complete_mission(True) adds the mission's
\* experience_reward to experience and its credit_reward to credits and raises
\* each required skill by 1; and whenever the hacking loop is left, the mission
\* is recorded with success True exactly when the simulation is complete at
\* that moment, and the player is rewarded exactly then.
C20_RewardsOnlyOnPass ==
    /\ [](manager.current_mission # None =>
            LET mission == manager.current_mission[1]
                failed == complete_mission(manager, player, FALSE).player
                passed == complete_mission(manager, player, TRUE).player
            IN  /\ failed.experience = player.experience
                /\ failed.credits = player.credits
                /\ failed.level = player.level
                /\ failed.skills = player.skills
                /\ passed.experience = player.experience + mission.experience_reward
                /\ passed.credits = player.credits + mission.credit_reward
                /\ \A j \in 1..Len(mission.required_skills) :
                      passed.skills[mission.required_skills[j][1]] =
                          player.skills[mission.required_skills[j][1]] + 1)
    /\ [][(pc = "hacking" /\ pc' = "main") =>
            /\ Len(manager'.mission_history) = Len(manager.mission_history) + 1
            /\ LastCompleted'.success = (current_step' = Len(hacking_steps'))
            /\ LastCompleted'.success = is_complete
            /\ player' = IF is_complete
                          THEN complete_mission(manager, player, TRUE).player
                          ELSE player]_vars

\* the hacking loop was left with the simulation complete: the mission is
\* recorded as a success and the player has the rewards and the raised skills
C20_Witness ==
    /\ pc = "main"
    /\ manager.mission_history # <<>>
    /\ LastCompleted.success = TRUE
    /\ is_complete
    /\ player.experience = 37
    /\ player.credits = 100 + 750
    /\ \A k \in SkillNames : player.skills[k] = MaxSkillLevel + 1

\* C21: a load that fails on the content of an existing file raises nothing to
\* its caller and leaves the subsystem, which was at its empty defaults, at
\* them: nothing of the file is kept. It is stated of the four loaders.
C21_FailedLoadLeavesEmptyDefaults ==
    [][/\ \A file \in TraceHistoryFiles :
            (/\ NewTraceSystem(file)
             /\ file.json # "missing"
             /\ _load_trace_history_try(TraceSystem, file).raised)
            => trace_system' = TraceSystem
       /\ \A file \in BankHistoryFiles :
            (/\ NewBank(file)
             /\ file.json # "missing"
             /\ _load_transaction_history_try(Bank, file).raised)
            => bank' = Bank
       /\ \A file \in MissionsFiles :
            (/\ LoadMissions(file)
             /\ file.json # "missing"
             /\ result' = <<FALSE>>
             /\ manager = MissionManager(<<>>))
            => manager' = MissionManager(<<>>)
       /\ \A file \in GameFiles :
            (/\ LoadGame(file)
             /\ file.json # "missing"
             /\ result' = <<FALSE>>
             /\ game_state = GameState)
            => game_state' = GameState /\ player' = player]_vars

\* C22: with a simulation started, handle_command returns False exactly when
\* the command is "exit" in any letter case; every other command returns True,
\* a hack that completes the simulation and any command after completion
\* included, so only "exit" ends main's hacking loop. (No step that returns
\* another value, or leaves or stays in the loop otherwise, is a step of
\* handle_command(command).)
C22_OnlyExitReturnsFalse ==
    [][\A command \in Commands :
          (/\ started
           /\ \/ result' # <<Lower(command) # "exit">>
              \/ pc = "hacking" /\ ((pc' = "main") # (Lower(command) = "exit")))
          => ~handle_command(command)]_vars

\* in the hacking loop a hack has just completed the simulation and
\* handle_command returned True: the loop goes on
C22_Witness ==
    /\ pc = "hacking"
    /\ call = "handle_command"
    /\ attempt # None
    /\ attempt[1] = TRUE
    /\ is_complete
    /\ result = <<TRUE>>

\* C23: with a mission active, update_mission_progress(step, t) records step
\* and adds t to the accumulated trace; if that is then 100 or more the mission
\* is completed as a failure within the call: current_mission is None,
\* mission_progress is emptied, exactly one record with success False joins
\* mission_history, the player gets no rewards, and a later complete_mission
\* changes nothing. With no mission active the call changes nothing.
C23_UpdateFailsMissionAtThreshold ==
    /\ [](\A step \in ProgressSteps, t \in TraceIncreases :
            LET r == update_mission_progress(manager, player, step, t) IN
            IF manager.current_mission = None
            THEN r.manager = manager /\ r.player = player
            ELSE
                LET total == manager.mission_progress[1].trace_level + t IN
                /\ r.player = player
                /\ r.manager.available_missions = manager.available_missions
                /\ IF total >= MissionTraceThreshold
                   THEN /\ r.manager.current_mission = None
                        /\ r.manager.mission_progress = None
                        /\ Len(r.manager.mission_history) =
                              Len(manager.mission_history) + 1
                        /\ SubSeq(r.manager.mission_history, 1,
                                  Len(manager.mission_history)) = manager.mission_history
                        /\ r.manager.mission_history[Len(r.manager.mission_history)].success
                              = FALSE
                        /\ \A success \in BOOLEAN :
                              complete_mission(r.manager, r.player, success)
                                  = [manager |-> r.manager, player |-> r.player]
                   ELSE /\ r.manager.current_mission = manager.current_mission
                        /\ r.manager.mission_history = manager.mission_history
                        /\ r.manager.mission_progress[1].current_step = step
                        /\ r.manager.mission_progress[1].trace_level = total)
    /\ [][call' = "update_mission_progress" =>
            /\ player' = player
            /\ manager.current_mission = None => manager' = manager
            /\ manager'.current_mission # None =>
                  manager'.mission_progress[1].trace_level < MissionTraceThreshold]_vars

\* update_mission_progress has just failed a mission whose trace had been
\* accumulated over several calls
C23_Witness ==
    /\ call = "update_mission_progress"
    /\ manager.current_mission = None
    /\ manager.mission_history # <<>>
    /\ LastCompleted.success = FALSE
    /\ LastCompleted.trace_level = 2 * MaxTraceIncrease
    /\ player \in TrainedPlayers

\* C24: in every reachable state completed_steps is the list of the names of
\* the first current_step steps of the catalog, in catalog order: its length is
\* current_step, no name is in it twice, and no step is skipped or completed
\* out of order.
C24_CompletedStepsAreCatalogPrefix ==
    /\ current_step \in 0..Len(hacking_steps)
    /\ Len(completed_steps) = current_step
    /\ \A i \in 1..Len(completed_steps) : completed_steps[i] = hacking_steps[i].name
    /\ \A i, j \in 1..Len(completed_steps) :
          completed_steps[i] = completed_steps[j] => i = j

\* three steps have been completed, the last by the attempt just made
C24_Witness ==
    /\ call = "attempt_step"
    /\ attempt # None
    /\ attempt[1] = TRUE
    /\ current_step = 3
    /\ completed_steps = <<hacking_steps[1].name, hacking_steps[2].name,
                           hacking_steps[3].name>>

\* C25: when every attempt_step call is made with skills that meet the
\* requirements of all five steps, attempts keep being issued and the random
\* outcomes are fair, the simulation eventually is complete and stays complete.
C25_EventuallyCompleteForGood == <>[]is_complete

\* the simulation has been completed by the fifth success after attempts that
\* failed or were detected
C25_Witness ==
    /\ is_complete
    /\ successes = 5
    /\ attempt # None
    /\ attempt[1] = TRUE
    /\ trace_level > FlatCost(Len(hacking_steps)) + 10

\* C26: in main, when the hacking loop is left with the simulation complete,
\* the player's credits rise by exactly the mission's credit_reward, once:
\* complete_mission(True) adds it, and Bank.process_mission_reward, given the
\* status dict taken at acceptance, adds nothing and records no transaction,
\* because that dict has no rewards entry.
C26_RewardIsPaidOnce ==
    /\ [](/\ bank.transaction_history = <<>>
          /\ manager.current_mission # None =>
                /\ "rewards" \notin DOMAIN get_mission_status(manager)
                /\ \A p \in {player, complete_mission(manager, player, TRUE).player} :
                      process_mission_reward(bank, p, get_mission_status(manager))
                          = [bank |-> bank, player |-> p])
    /\ [][(pc = "hacking" /\ pc' = "main" /\ is_complete) =>
            /\ player'.credits =
                  player.credits + manager.current_mission[1].credit_reward
            /\ bank' = bank]_vars

\* a mission has ended with the simulation complete: the player holds the 100
\* credits of a new player and the reward of 750, and the bank has recorded
\* no transaction
C26_Witness ==
    /\ pc = "main"
    /\ call = "handle_command"
    /\ result = <<FALSE>>
    /\ is_complete
    /\ manager.mission_history # <<>>
    /\ LastCompleted.success = TRUE
    /\ player.credits = 850
    /\ bank = Bank

\* C27: a scan command adds exactly 2 to trace_level and leaves current_step,
\* completed_steps and the security systems as they are, in every state, the
\* complete ones included; the status, systems and help commands change
\* nothing of the simulation.
C27_ScanCostsTwoAndDisplaysCostNothing ==
    [][\A command \in {c \in Commands :
                          Lower(c) \in {"scan", "status", "systems", "help"}} :
          (started /\ handle_command(command)) =>
              /\ UNCHANGED <<started, difficulty, current_step, completed_steps,
                             security_systems, hacking_steps>>
              /\ trace_level' = IF Lower(command) = "scan" THEN trace_level + 2
                                ELSE trace_level]_vars

\* a scan has just been made on a complete simulation
C27_Witness ==
    /\ call = "handle_command"
    /\ is_complete
    /\ successes = 5
    /\ attempt = None
    /\ trace_level = FlatCost(Len(hacking_steps)) + 2

\* the credits buy_item is tried with in a state: the player's, none, and the
\* prices and one less
CreditProbes ==
    {0, player.credits}
    \cup UNION {{Store[k].price - 1, Store[k].price} : k \in 1..Len(Store)}

\* C28: over any sequence of store commands every item's stock and the
\* player's credits stay at 0 or more; Store.buy_item returns None and changes
\* no stock when the id is unknown, the stock is 0 or less or the credits are
\* below the price, and otherwise takes exactly 1 from the stock of that item;
\* and the player of a successful buy command pays exactly the price.
C28_StockAndCreditsNeverNegative ==
    /\ [](/\ player.credits >= 0
          /\ \A i \in 1..Len(store) : store[i].stock >= 0
          /\ \A item_id \in ItemIds \cup {"unknown"}, credits \in CreditProbes :
                LET r == buy_item(store, item_id, credits)
                    i == FindItem(store, item_id)
                IN  IF i = 0 \/ store[i].stock <= 0 \/ credits < store[i].price
                    THEN r.returned = None /\ r.store = store
                    ELSE /\ r.returned # None
                         /\ r.returned[1].id = item_id
                         /\ r.store = [store EXCEPT ![i].stock = store[i].stock - 1])
    /\ [][\A item_id \in ItemIds \cup {"unknown"} :
            StoreCommand(<<"buy", item_id>>) =>
                LET r == buy_item(store, item_id, player.credits)
                    i == FindItem(store, item_id)
                IN  /\ store' = r.store
                    /\ IF r.returned = None THEN player' = player
                       ELSE player'.credits = player.credits - store[i].price]_vars

\* the player has bought the last port_scanner with nearly all the credits held
C28_Witness ==
    /\ call = "StoreInterface.handle_command"
    /\ store[FindItem(store, "port_scanner")].stock = 0
    /\ player.inventory = <<"port_scanner">>
    /\ player.credits = (MaxStoreCredits \div 2) - 1000

\* the units of an item the player holds in inventory
Held(p, item_id) == Cardinality({j \in 1..Len(p.inventory) : p.inventory[j] = item_id})

\* C29: units paid for are never lost: a successful buy command adds one unit
\* of the item to those the player holds and a sale takes one, so over buy and
\* sell commands the stock of every item plus the units of it the player holds
\* stays the same.
C29_StockPlusHeldIsConstant ==
    [][\A verb \in {"buy", "sell"}, item_id \in ItemIds :
          StoreCommand(<<verb, item_id>>) =>
              /\ \A i \in 1..Len(store) :
                    store'[i].stock + Held(player', store[i].id)
                        = store[i].stock + Held(player, store[i].id)
              /\ player'.credits < player.credits =>
                    Held(player', item_id) = Held(player, item_id) + 1
              /\ player'.credits > player.credits =>
                    Held(player', item_id) = Held(player, item_id) - 1]_vars

\* C30: train_skill returns False and changes nothing of the player when the
\* skill is unknown or the credits are below the cost; a False result always
\* means that credits and experience are as they were; a True result means the
\* cost was deducted, the experience added and the skill raised by 1.
C30_FalseMeansNothingSpent ==
    /\ [](\A skill \in TrainedSkills : \A roll \in TrainingRolls(player, skill) :
            LET r == train_skill(player, skill, roll) IN
            /\ (skill \notin DOMAIN player.skills
                \/ player.credits < training_costs[skill])
               => r = [returned |-> FALSE, player |-> player]
            /\ r.returned =>
                  /\ r.player.credits = player.credits - training_costs[skill]
                  /\ r.player.experience = player.experience + training_experience[skill]
                  /\ r.player.skills = [player.skills EXCEPT ![skill] = @ + 1])
    /\ [][(call' = "train_skill" /\ result' = <<FALSE>>) =>
            /\ player'.credits = player.credits
            /\ player'.experience = player.experience]_vars

====
